---- MODULE Spec2Model ----
(***************************************************************************)
(* A model of server.js: an Express server whose handlers pass requests    *)
(* through to a hosted auth service (the Directory Service, reached by the *)
(* shared client `supabase`) and a hosted database (the Record Store,      *)
(* reached by the service-role client `supabaseAdmin`).                    *)
(*                                                                         *)
(* A request occupies a slot from its arrival to the delivery of its       *)
(* response.  Every `await` of a handler is a point where other requests   *)
(* may run, so a handler is one action per awaited call, each action       *)
(* holding the call and all the code up to the next await or the response. *)
(*                                                                         *)
(* Left out: the pages that render with no call (/, /login, /signup,       *)
(* /test-supabase), POST /signup (the identities are those signed up       *)
(* before) and POST /api/playlist with its playlists table, which no other *)
(* route reads.                                                            *)
(***************************************************************************)
EXTENDS Integers, Sequences, FiniteSets, TLC

\* ------------------------------------------------------------------ bounds
MaxReq == 2          \* requests in flight at once
MaxDevices == 2      \* rows the devices table may hold
MaxContent == 1      \* rows the content table may hold

\* ------------------------------------------------------------- identities
Users == {"A", "B"}
NoUserId == "none"

\* JavaScript's undefined (a field the request body does not carry).
Undefined == "undefined"
\* The operand of `||` and `!` is falsy when undefined or the empty string.
Falsy(v) == v \in {Undefined, ""}
\* a || b
Or(a, b) == IF Falsy(a) THEN b ELSE a

\* A bearer token of each user, and a malformed one.  An absent cookie reads
\* as undefined.
Tokens == {"tokA", "tokB"}
Garbage == "garbage"
Cookies == {Undefined, "", Garbage} \union Tokens
TokenUser(t) == IF t = "tokA" THEN "A" ELSE IF t = "tokB" THEN "B" ELSE NoUserId
TokenOf(u) == IF u = "A" THEN "tokA" ELSE "tokB"

EmptyMeta == [full_name |-> "", avatar_url |-> ""]
\* The metadata each identity was signed up with: full_name || '', avatar_url || ''.
SignupMeta == [u \in Users |->
                 [full_name |-> Or(IF u = "A" THEN "Ann" ELSE Undefined, ""),
                  avatar_url |-> Or(Undefined, "")]]

NoUser == [id |-> NoUserId, user_metadata |-> EmptyMeta]
NoError == "null"

\* ------------------------------------------------------ the pairing code
HexChars == <<"0", "1", "2", "3", "4", "5", "6", "7",
              "8", "9", "a", "b", "c", "d", "e", "f">>
UpperHexChars == {"0", "1", "2", "3", "4", "5", "6", "7",
                  "8", "9", "A", "B", "C", "D", "E", "F"}

\* The outcomes of crypto.randomBytes(4) the model draws from: between them
\* they produce every hexadecimal digit, and bytes below 16.
RandomBytes == {<<1, 35, 69, 103>>, <<137, 171, 205, 239>>, <<0, 10, 171, 255>>}

\* Buffer.toString('hex'): two lowercase digits per byte, zero padded.
RECURSIVE ToHex(_)
ToHex(bytes) ==
    IF bytes = <<>> THEN <<>>
    ELSE <<HexChars[(Head(bytes) \div 16) + 1], HexChars[(Head(bytes) % 16) + 1]>>
         \o ToHex(Tail(bytes))

UpperChar(c) ==
    CASE c = "a" -> "A" [] c = "b" -> "B" [] c = "c" -> "C"
      [] c = "d" -> "D" [] c = "e" -> "E" [] c = "f" -> "F"
      [] OTHER -> c

\* String.toUpperCase
ToUpperCase(s) == [i \in 1..Len(s) |-> UpperChar(s[i])]

\* A bug the code could have: the hexadecimal string is not upper-cased.
UniqueCodeLower(bytes) == ToHex(bytes)

\* crypto.randomBytes(4).toString('hex').toUpperCase()
UniqueCode(bytes) == ToUpperCase(ToHex(bytes))

\* ------------------------------------------------------------- requests
Slots == 1..MaxReq

ProtectedRoutes == {"GET /dashboard", "GET /content", "GET /playlist/:deviceId",
                    "GET /profile", "POST /api/generate-code", "POST /api/content",
                    "GET /api/user/profile", "PUT /api/user/profile"}
OpenRoutes == {"POST /api/confirm-device"}

NoBody == [device_name |-> Undefined, device_id |-> 0,
           full_name |-> Undefined, avatar_url |-> Undefined,
           file_url |-> Undefined, content_type |-> Undefined]

\* The request bodies and route parameters a client may send on each route.
Bodies(route) ==
    CASE route = "POST /api/generate-code" ->
            {[NoBody EXCEPT !.device_name = n] : n \in {Undefined, "", "Lobby TV"}}
      [] route \in {"POST /api/confirm-device", "GET /playlist/:deviceId"} ->
            {[NoBody EXCEPT !.device_id = d] : d \in 1..MaxDevices}
      [] route = "PUT /api/user/profile" ->
            {[NoBody EXCEPT !.full_name = f, !.avatar_url = a] :
                f \in {Undefined, "", "Bob"}, a \in {Undefined, "pic"}}
      [] route = "POST /api/content" ->
            {[NoBody EXCEPT !.file_url = "f.png", !.content_type = "image"]}
      [] OTHER -> {NoBody}

NoRes == [status |-> 0, kind |-> "none", devices |-> <<>>, content |-> <<>>,
          users |-> <<>>]
Redirect(to) == [NoRes EXCEPT !.status = 302, !.kind = to]
\* res.status(code).json({ error: message }), or .send(message)
ErrorRes(code, message) == [NoRes EXCEPT !.status = code, !.kind = message]

\* error.message of a store call that failed for the store's own reasons, and
\* of an insert that violated a unique constraint.
StoreError == "store error"
DuplicateKey == "duplicate key value violates unique constraint"

Idle == [route |-> "idle", pc |-> "idle", cookie |-> Undefined, body |-> NoBody,
         user |-> NoUser, data |-> <<>>, res |-> NoRes,
         storeOps |-> 0, metaOps |-> 0, authError |-> FALSE]

VARIABLES
    validTokens,    \* Directory Service: the tokens it validates at present
    clientSession,  \* the session the shared client `supabase` holds, or NoUserId
    meta,           \* Directory Service: each identity's user_metadata
    users,          \* Record Store: the users table, one row per identity
    devices,        \* Record Store: the devices table; device_id is the row's index
    content,        \* Record Store: the content table
    reqs            \* the requests in flight, by slot

vars == <<validTokens, clientSession, meta, users, devices, content, reqs>>

authVars == <<validTokens, clientSession, meta>>
storeVars == <<users, devices, content>>

\* The server has started: nobody has logged in through it, every identity
\* has its users row, which holds the names it signed up with, and the
\* devices and content tables are empty.
Init ==
    /\ validTokens = {}
    /\ clientSession = NoUserId
    /\ meta = SignupMeta
    /\ users = [u \in Users |->
                  [id |-> u, full_name |-> SignupMeta[u].full_name,
                   avatar_url |-> SignupMeta[u].avatar_url]]
    /\ devices = <<>>
    /\ content = <<>>
    /\ reqs = [s \in Slots |-> Idle]

\* ------------------------------------------------- the Directory Service
\* supabase.auth.getUser(token): the identity a valid token resolves to, with
\* its metadata as it is now; for any other token no user, with an error or
\* without one.
GetUser(token) ==
    IF token \in validTokens
    THEN {[user |-> [id |-> TokenUser(token), user_metadata |-> meta[TokenUser(token)]],
           error |-> NoError]}
    ELSE {[user |-> NoUser, error |-> "AuthApiError"],
          [user |-> NoUser, error |-> NoError]}

\* POST /login: signInWithPassword on the shared client.  With good
\* credentials the service issues the user's token, which the response sets as
\* the auth-token cookie, and the shared client keeps the session it was
\* given; with bad ones the response is 400 and nothing changes.
Login(u) ==
    /\ \E ok \in BOOLEAN :
          IF ok
          THEN /\ validTokens' = validTokens \union {TokenOf(u)}
               /\ clientSession' = u
          ELSE UNCHANGED <<validTokens, clientSession>>
    /\ UNCHANGED <<meta, storeVars, reqs>>

\* A token reaches its expiry: getUser stops validating it.
Expire(t) ==
    /\ t \in validTokens
    /\ validTokens' = validTokens \ {t}
    /\ UNCHANGED <<clientSession, meta, storeVars, reqs>>

\* ------------------------------------------------------------- arrival
IsPut(r) == r.route = "PUT /api/user/profile"

\* A request arrives and takes the first free slot.
Arrive(s, route, cookie, body) ==
    /\ reqs[s] = Idle
    /\ \A t \in Slots : t < s => reqs[t] # Idle
    /\ reqs' = [reqs EXCEPT ![s] =
                  [Idle EXCEPT !.route = route,
                               !.pc = IF route \in ProtectedRoutes THEN "auth"
                                      ELSE "handler",
                               !.cookie = cookie,
                               !.body = body]]
    /\ UNCHANGED <<authVars, storeVars>>

\* The response has been delivered: the slot is free again.
Retire(s) ==
    /\ reqs[s].pc = "done"
    /\ reqs' = [reqs EXCEPT ![s] = Idle]
    /\ UNCHANGED <<authVars, storeVars>>

\* ------------------------------------------------------------ requireAuth
\* A bug the code could have: only an error denies, a missing user does not.
DeniedOnErrorOnly(out) == out.error # NoError

\* if (error || !user)
Denied(out) == out.error # NoError \/ out.user = NoUser

\* The response is sent: of the request, the slot keeps the route, the response
\* and the calls made for it.
Respond(r, res) == [Idle EXCEPT !.route = r.route, !.pc = "done", !.res = res,
                                !.storeOps = r.storeOps, !.metaOps = r.metaOps]

RequireAuth(s) ==
    /\ reqs[s].pc = "auth"
    /\ LET r == reqs[s]
           token == r.cookie
       IN IF Falsy(token)
          THEN reqs' = [reqs EXCEPT ![s] = Respond(r, Redirect("/login"))]
          ELSE \E out \in GetUser(token) :
                 IF Denied(out)
                 THEN reqs' = [reqs EXCEPT ![s] = Respond(r, Redirect("/login"))]
                 ELSE reqs' = [reqs EXCEPT ![s] = [r EXCEPT !.user = out.user,
                                                            !.pc = "handler"]]
    /\ UNCHANGED <<authVars, storeVars>>

\* ------------------------------------------------------- the Record Store
\* The store's column default of devices.status.
DefaultStatus == "pending"

\* The store's unique constraint on devices.unique_code: whether an insert of
\* `code` violates it.
CodeTaken(rows, code) == \E i \in 1..Len(rows) : rows[i].unique_code = code

\* .eq(column, value) of a select: the rows that match, in table order.
SelectEq(rows, column, value) == SelectSeq(rows, LAMBDA row : row[column] = value)

\* data[0] of a returned row list, as the JSON body: no row when there is none.
First(rows) == IF rows = <<>> THEN <<>> ELSE <<rows[1]>>

Json(code, table, rows) == [NoRes EXCEPT !.status = code, !.kind = "json",
                                         ![table] = rows]
Render(view) == [NoRes EXCEPT !.status = 200, !.kind = view]

Step(r, res) == [Respond(r, res) EXCEPT !.storeOps = r.storeOps + 1]

\* ---------------------------------------------------------- page routes
\* GET /dashboard
Dashboard(s) ==
    /\ reqs[s].pc = "handler" /\ reqs[s].route = "GET /dashboard"
    /\ LET r == reqs[s] IN
       \E fail \in BOOLEAN :
          reqs' = [reqs EXCEPT ![s] =
                     IF fail THEN Step(r, ErrorRes(500, "Error fetching devices"))
                     ELSE Step(r, [Render("dashboard") EXCEPT !.devices =
                                      SelectEq(devices, "owner_id", r.user.id)])]
    /\ UNCHANGED <<authVars, storeVars>>

\* GET /content: a failed select renders the empty list.
ContentPage(s) ==
    /\ reqs[s].pc = "handler" /\ reqs[s].route = "GET /content"
    /\ LET r == reqs[s] IN
       \E fail \in BOOLEAN :
          reqs' = [reqs EXCEPT ![s] =
                     Step(r, [Render("content") EXCEPT !.content =
                                 IF fail THEN <<>>
                                 ELSE SelectEq(content, "owner_id", r.user.id)])]
    /\ UNCHANGED <<authVars, storeVars>>

\* .from('devices').select('*').eq('device_id', deviceId)
PlaylistDevice(rows, r) == SelectEq(rows, "device_id", r.body.device_id)

\* GET /playlist/:deviceId, first await: the device, by its id (.single():
\* no row is an error, and the data is null).
PlaylistPageDevice(s) ==
    /\ reqs[s].pc = "handler" /\ reqs[s].route = "GET /playlist/:deviceId"
    /\ LET r == reqs[s] IN
       \E fail \in BOOLEAN :
          reqs' = [reqs EXCEPT ![s] =
                     [r EXCEPT !.pc = "handler2",
                               !.storeOps = r.storeOps + 1,
                               !.data = IF fail THEN <<>>
                                        ELSE First(PlaylistDevice(devices, r))]]
    /\ UNCHANGED <<authVars, storeVars>>

\* GET /playlist/:deviceId, second await: the caller's content, and the page.
PlaylistPageContent(s) ==
    /\ reqs[s].pc = "handler2" /\ reqs[s].route = "GET /playlist/:deviceId"
    /\ LET r == reqs[s] IN
       \E fail \in BOOLEAN :
          reqs' = [reqs EXCEPT ![s] =
                     Step(r, [Render("playlist") EXCEPT
                                 !.devices = r.data,
                                 !.content = IF fail THEN <<>>
                                             ELSE SelectEq(content, "owner_id",
                                                           r.user.id)])]
    /\ UNCHANGED <<authVars, storeVars>>

\* GET /profile: renders req.user, with no store call.
ProfilePage(s) ==
    /\ reqs[s].pc = "handler" /\ reqs[s].route = "GET /profile"
    /\ reqs' = [reqs EXCEPT ![s] = Respond(reqs[s], Render("profile"))]
    /\ UNCHANGED <<authVars, storeVars>>

\* ------------------------------------------------------- device pairing
\* The row POST /api/generate-code hands to insert.
GenerateRow(r, code) ==
    [owner_id |-> r.user.id,
     unique_code |-> code,
     device_name |-> Or(r.body.device_name, "New Device")]

\* The row as the store keeps it: the next device_id, and the default status.
StoredDevice(rows, row) ==
    [device_id |-> Len(rows) + 1, owner_id |-> row.owner_id,
     unique_code |-> row.unique_code, device_name |-> row.device_name,
     status |-> DefaultStatus]

\* A bug the code could have: the store's error is not looked at, and the
\* response is the 201 of a created device.
GenerateFailedCreated(r, message) == Step(r, Json(201, "devices", <<>>))

\* if (error) return res.status(500).json({ error: error.message })
GenerateFailed(r, message) == Step(r, ErrorRes(500, message))

\* POST /api/generate-code.  The insert is refused when the code is taken or
\* the table is full, and may fail or throw for the store's own reasons.
GenerateCode(s) ==
    /\ reqs[s].pc = "handler" /\ reqs[s].route = "POST /api/generate-code"
    /\ LET r == reqs[s] IN
       \E bytes \in RandomBytes, outcome \in {"ok", "error", "throw"} :
          LET unique_code == UniqueCode(bytes)
              row == StoredDevice(devices, GenerateRow(r, unique_code))
          IN IF outcome = "throw"
             THEN /\ reqs' = [reqs EXCEPT ![s] =
                                Step(r, ErrorRes(500, "Unexpected error occurred"))]
                  /\ UNCHANGED devices
             ELSE IF outcome = "error" \/ Len(devices) >= MaxDevices
             THEN /\ reqs' = [reqs EXCEPT ![s] = GenerateFailed(r, StoreError)]
                  /\ UNCHANGED devices
             ELSE IF CodeTaken(devices, unique_code)
             THEN /\ reqs' = [reqs EXCEPT ![s] = GenerateFailed(r, DuplicateKey)]
                  /\ UNCHANGED devices
             ELSE /\ devices' = Append(devices, row)
                  /\ reqs' = [reqs EXCEPT ![s] = Step(r, Json(201, "devices", <<row>>))]
    /\ UNCHANGED <<authVars, users, content>>

\* A bug the code could have: the update writes the status back to pending.
ConfirmStatusPending == "pending"

\* .update({ status: 'active' })
ConfirmStatus == "active"

\* A bug the code could have: the update has no .eq filter.
ConfirmRowsAll(rows, device_id) ==
    [i \in 1..Len(rows) |-> [rows[i] EXCEPT !.status = ConfirmStatus]]

\* .update({ status: 'active' }).eq('device_id', device_id): the table after it.
ConfirmRows(rows, device_id) ==
    [i \in 1..Len(rows) |->
        IF rows[i].device_id = device_id
        THEN [rows[i] EXCEPT !.status = ConfirmStatus]
        ELSE rows[i]]

\* POST /api/confirm-device: no requireAuth.  An update that matches no row
\* is no error of the store: data is the empty list, and the body data[0].
ConfirmDevice(s) ==
    /\ reqs[s].pc = "handler" /\ reqs[s].route = "POST /api/confirm-device"
    /\ LET r == reqs[s] IN
       \E fail \in BOOLEAN :
          IF fail
          THEN /\ reqs' = [reqs EXCEPT ![s] = Step(r, ErrorRes(500, StoreError))]
               /\ UNCHANGED devices
          ELSE /\ devices' = ConfirmRows(devices, r.body.device_id)
               /\ reqs' = [reqs EXCEPT ![s] =
                             Step(r, Json(200, "devices",
                                          First(SelectEq(devices', "device_id",
                                                         r.body.device_id))))]
    /\ UNCHANGED <<authVars, users, content>>

\* POST /api/content
PostContent(s) ==
    /\ reqs[s].pc = "handler" /\ reqs[s].route = "POST /api/content"
    /\ LET r == reqs[s]
           row == [content_id |-> Len(content) + 1, owner_id |-> r.user.id,
                   file_url |-> r.body.file_url, content_type |-> r.body.content_type]
       IN \E fail \in BOOLEAN :
             IF fail \/ Len(content) >= MaxContent
             THEN /\ reqs' = [reqs EXCEPT ![s] = Step(r, ErrorRes(500, StoreError))]
                  /\ UNCHANGED content
             ELSE /\ content' = Append(content, row)
                  /\ reqs' = [reqs EXCEPT ![s] = Step(r, Json(201, "content", <<row>>))]
    /\ UNCHANGED <<authVars, users, devices>>

\* ---------------------------------------------------------------- profile
\* .from('users') ... .eq('id', id): the rows of the users table that match.
UsersEq(table, id) == IF id \in DOMAIN table THEN <<table[id]>> ELSE <<>>

\* GET /api/user/profile (.single(): no row is an error)
GetProfile(s) ==
    /\ reqs[s].pc = "handler" /\ reqs[s].route = "GET /api/user/profile"
    /\ LET r == reqs[s] IN
       \E fail \in BOOLEAN :
          reqs' = [reqs EXCEPT ![s] =
                     IF fail \/ UsersEq(users, r.user.id) = <<>>
                     THEN Step(r, ErrorRes(500, StoreError))
                     ELSE Step(r, Json(200, "users", UsersEq(users, r.user.id)))]
    /\ UNCHANGED <<authVars, storeVars>>

\* The columns PUT /api/user/profile writes to the users table.
ProfilePatch(body, user) ==
    [full_name |-> Or(body.full_name, Or(user.user_metadata.full_name, "")),
     avatar_url |-> Or(body.avatar_url, Or(user.user_metadata.avatar_url, ""))]

\* The metadata PUT /api/user/profile hands to supabase.auth.updateUser.
AuthPatch(body, user) ==
    [full_name |-> Or(body.full_name, Or(user.user_metadata.full_name, "")),
     avatar_url |-> Or(body.avatar_url, Or(user.user_metadata.avatar_url, ""))]

\* PUT /api/user/profile, first await: the update of the users table.
PutProfileUsers(s) ==
    /\ reqs[s].pc = "handler" /\ IsPut(reqs[s])
    /\ LET r == reqs[s]
           patch == ProfilePatch(r.body, r.user)
       IN \E fail \in BOOLEAN :
             IF fail
             THEN /\ reqs' = [reqs EXCEPT ![s] = Step(r, ErrorRes(500, StoreError))]
                  /\ UNCHANGED users
             ELSE /\ users' = [u \in DOMAIN users |->
                                 IF u = r.user.id
                                 THEN [users[u] EXCEPT !.full_name = patch.full_name,
                                                       !.avatar_url = patch.avatar_url]
                                 ELSE users[u]]
                  /\ reqs' = [reqs EXCEPT ![s] =
                                [r EXCEPT !.pc = "handler2",
                                          !.storeOps = r.storeOps + 1,
                                          !.data = UsersEq(users', r.user.id)]]
    /\ UNCHANGED <<authVars, devices, content>>

\* A bug the code could have: a failed metadata update fails the request.
ProfileResponseStrict(r, authError) ==
    IF authError THEN ErrorRes(500, "Auth update error")
    ELSE Json(200, "users", First(r.data))

\* if (authError) { console.error(...) }  res.status(200).json(userData[0])
ProfileResponse(r, authError) == Json(200, "users", First(r.data))

\* PUT /api/user/profile, second await: supabase.auth.updateUser on the shared
\* client, which acts for the session that client holds: with no session it
\* fails; with one, the service merges the data into that session's user's
\* metadata, or fails.
PutProfileAuth(s) ==
    /\ reqs[s].pc = "handler2" /\ IsPut(reqs[s])
    /\ LET r == reqs[s]
           patch == AuthPatch(r.body, r.user)
       IN \E fail \in BOOLEAN :
             LET authError == fail \/ clientSession = NoUserId
             IN /\ meta' = IF authError THEN meta
                           ELSE [meta EXCEPT ![clientSession] =
                                    [@ EXCEPT !.full_name = patch.full_name,
                                              !.avatar_url = patch.avatar_url]]
                /\ reqs' = [reqs EXCEPT ![s] =
                              [Respond(r, ProfileResponse(r, authError)) EXCEPT
                                  !.metaOps = r.metaOps + 1,
                                  !.authError = authError]]
    /\ UNCHANGED <<validTokens, clientSession, storeVars>>

\* ------------------------------------------------------------------ next
Routes == ProtectedRoutes \union OpenRoutes

CookiesOf(route) == IF route \in ProtectedRoutes THEN Cookies ELSE {Undefined}

\* The whole server: any request at any time.  Each specification below takes
\* some of these steps, so that its behaviours are behaviours of Spec.
Next ==
    \/ \E u \in Users : Login(u)
    \/ \E t \in Tokens : Expire(t)
    \/ \E s \in Slots, route \in Routes :
          \E cookie \in CookiesOf(route), body \in Bodies(route) :
             Arrive(s, route, cookie, body)
    \/ \E s \in Slots : RequireAuth(s)
    \/ \E s \in Slots : Dashboard(s)
    \/ \E s \in Slots : ContentPage(s)
    \/ \E s \in Slots : PlaylistPageDevice(s)
    \/ \E s \in Slots : PlaylistPageContent(s)
    \/ \E s \in Slots : ProfilePage(s)
    \/ \E s \in Slots : GenerateCode(s)
    \/ \E s \in Slots : ConfirmDevice(s)
    \/ \E s \in Slots : PostContent(s)
    \/ \E s \in Slots : GetProfile(s)
    \/ \E s \in Slots : PutProfileUsers(s)
    \/ \E s \in Slots : PutProfileAuth(s)
    \/ \E s \in Slots : Retire(s)

Spec == Init /\ [][Next]_vars

\* Requests on `routes` arrive, at most n of them in flight at once.
RequestsOn(routes, n) ==
    \E s \in 1..n, route \in routes :
       \E cookie \in CookiesOf(route), body \in Bodies(route) :
          Arrive(s, route, cookie, body)

Sessions ==
    \/ \E u \in Users : Login(u)
    \/ \E t \in Tokens : Expire(t)

Guard ==
    \/ \E s \in Slots : RequireAuth(s)
    \/ \E s \in Slots : Retire(s)

\* The session guard under concurrent requests: the protected routes that
\* read (one store call, or none), with up to MaxReq requests in flight and
\* every interleaving of their awaits, of logins and of token expiries.
GuardRoutes == {"GET /dashboard", "GET /content", "GET /profile",
                "GET /api/user/profile"}

NextGuard ==
    \/ Sessions
    \/ RequestsOn(GuardRoutes, MaxReq)
    \/ Guard
    \/ \E s \in Slots : Dashboard(s)
    \/ \E s \in Slots : ContentPage(s)
    \/ \E s \in Slots : ProfilePage(s)
    \/ \E s \in Slots : GetProfile(s)

SpecGuard == Init /\ [][NextGuard]_vars

\* The device pairing flow, its requests served one after another.
PairingRoutes == {"POST /api/generate-code", "POST /api/confirm-device"}

NextPairing ==
    \/ Sessions
    \/ RequestsOn(PairingRoutes, 1)
    \/ Guard
    \/ \E s \in Slots : GenerateCode(s)
    \/ \E s \in Slots : ConfirmDevice(s)

SpecPairing == Init /\ [][NextPairing]_vars

\* The profile update, its requests served one after another.
ProfileRoutes == {"GET /api/user/profile", "PUT /api/user/profile"}

NextProfile ==
    \/ Sessions
    \/ RequestsOn(ProfileRoutes, 1)
    \/ Guard
    \/ \E s \in Slots : GetProfile(s)
    \/ \E s \in Slots : PutProfileUsers(s)
    \/ \E s \in Slots : PutProfileAuth(s)

SpecProfile == Init /\ [][NextProfile]_vars

\* The pages and what fills them, their requests served one after another.
PageRoutes == {"GET /dashboard", "GET /content", "GET /playlist/:deviceId",
               "POST /api/generate-code", "POST /api/content"}

NextPages ==
    \/ Sessions
    \/ RequestsOn(PageRoutes, 1)
    \/ Guard
    \/ \E s \in Slots : Dashboard(s)
    \/ \E s \in Slots : ContentPage(s)
    \/ \E s \in Slots : PlaylistPageDevice(s)
    \/ \E s \in Slots : PlaylistPageContent(s)
    \/ \E s \in Slots : GenerateCode(s)
    \/ \E s \in Slots : PostContent(s)

SpecPages == Init /\ [][NextPages]_vars

\* ======================================================== the claims
\* Slot s takes, in this step, the step of `route` that leaves pc `from`.
Steps(s, route, from) ==
    /\ reqs[s].route = route
    /\ reqs[s].pc = from
    /\ reqs'[s].pc # from

DeviceIds(rows) == {rows[i].device_id : i \in 1..Len(rows)}

\* ---- C1
\* C1: a device row is created with status pending; a successful
\* confirm-device carrying its device_id leaves it active; and a row that is
\* active is active after every step of the server.
C1_PendingThenActiveForever ==
    [][/\ Len(devices') >= Len(devices)
       /\ \A i \in 1..Len(devices') :
             i > Len(devices) => devices'[i].status = "pending"
       /\ \A i \in 1..Len(devices) :
             devices[i].status = "active" => devices'[i].status = "active"
       /\ \A s \in Slots :
             /\ Steps(s, "POST /api/confirm-device", "handler")
             /\ reqs'[s].res.status = 200
             /\ reqs[s].body.device_id \in DeviceIds(devices)
             => \A i \in 1..Len(devices') :
                   devices'[i].device_id = reqs[s].body.device_id
                   => devices'[i].status = "active"]_vars

\* A pending device and an active one, the latter just confirmed with a 200
\* that carries its row.
C1_Witness ==
    /\ \E i \in 1..Len(devices) : devices[i].status = "pending"
    /\ \E s \in Slots, i \in 1..Len(devices) :
          /\ reqs[s].route = "POST /api/confirm-device"
          /\ reqs[s].pc = "done"
          /\ reqs[s].res.status = 200
          /\ reqs[s].res.devices = <<devices[i]>>
          /\ devices[i].status = "active"

\* ---- C2
\* C2: a confirm-device whose device_id matches no device row responds with
\* an error and leaves every device row unchanged.
C2_UnknownIdFails ==
    [][\A s \in Slots :
          /\ Steps(s, "POST /api/confirm-device", "handler")
          /\ reqs[s].body.device_id \notin DeviceIds(devices)
          => /\ reqs'[s].res.status >= 400
             /\ devices' = devices]_vars

\* ---- C7
UniqueCodes ==
    \A i, j \in 1..Len(devices) :
       i # j => devices[i].unique_code # devices[j].unique_code

\* C7: a generate-code makes exactly one insert attempt; when the insert
\* fails (a taken code included) the response is 500 and the device rows are
\* unchanged, and otherwise one row is added; no two device rows ever share a
\* unique_code.
C7_OneAttemptNoDuplicate ==
    /\ []UniqueCodes
    /\ [][\A s \in Slots :
             Steps(s, "POST /api/generate-code", "handler")
             => /\ reqs'[s].pc = "done"
                /\ reqs'[s].storeOps = 1
                /\ reqs'[s].res.status \in {201, 500}
                /\ reqs'[s].res.status = 500 <=> devices' = devices
                /\ reqs'[s].res.status = 201
                   => /\ Len(devices') = Len(devices) + 1
                      /\ SubSeq(devices', 1, Len(devices)) = devices
                      /\ ~CodeTaken(devices, devices'[Len(devices')].unique_code)]_vars

\* A generate-code whose code collided with that of the one device in the
\* table, answered 500 after its one insert, with room left for another row.
C7_Witness ==
    /\ Len(devices) = 1
    /\ Len(devices) < MaxDevices
    /\ \E s \in Slots :
          /\ reqs[s].route = "POST /api/generate-code"
          /\ reqs[s].pc = "done"
          /\ reqs[s].res = ErrorRes(500, DuplicateKey)
          /\ reqs[s].storeOps = 1

\* ---- C8
IsUpperHex8(code) ==
    /\ Len(code) = 8
    /\ \A k \in 1..Len(code) : code[k] \in UpperHexChars

\* C8: every persisted unique_code is 8 characters, each in 0-9 or A-F; the
\* row a generate-code persists has the caller's id as owner_id and the
\* supplied device_name, or "New Device" when none or an empty one is supplied.
C8_CodeAndRow ==
    /\ [](\A i \in 1..Len(devices) : IsUpperHex8(devices[i].unique_code))
    /\ [][\A s \in Slots :
             /\ Steps(s, "POST /api/generate-code", "handler")
             /\ devices' # devices
             => LET row == devices'[Len(devices')]
                    name == reqs[s].body.device_name
                IN /\ row.owner_id = TokenUser(reqs[s].cookie)
                   /\ row.owner_id \in Users
                   /\ row.device_name = IF name \in {Undefined, ""}
                                        THEN "New Device" ELSE name]_vars

\* Two codes of the random source persisted, one row under the default name
\* and one under the supplied name.
C8_Witness ==
    /\ Len(devices) = 2
    /\ {devices[i].unique_code : i \in 1..2}
          = {<<"0", "0", "0", "A", "A", "B", "F", "F">>,
             <<"8", "9", "A", "B", "C", "D", "E", "F">>}
    /\ {devices[i].device_name : i \in 1..2} = {"New Device", "Lobby TV"}

\* ---- C9
\* C9: a confirm-device changes nothing but the status of the rows whose
\* device_id is the request's; and no step of the server changes the owner_id
\* of a device row.
C9_ConfirmFrame ==
    [][/\ Len(devices') >= Len(devices)
       /\ \A i \in 1..Len(devices) : devices'[i].owner_id = devices[i].owner_id
       /\ \A s \in Slots :
             Steps(s, "POST /api/confirm-device", "handler")
             => /\ Len(devices') = Len(devices)
                /\ \A i \in 1..Len(devices) :
                      /\ devices'[i] = [devices[i] EXCEPT !.status = devices'[i].status]
                      /\ devices[i].device_id # reqs[s].body.device_id
                         => devices'[i] = devices[i]
                /\ <<users', content', meta'>> = <<users, content, meta>>]_vars

\* Two pending devices of different owners were there, and a confirm-device
\* of one has made it active while the other is pending still.
C9_Witness ==
    /\ Len(devices) = 2
    /\ devices[1].owner_id # devices[2].owner_id
    /\ \E s \in Slots :
          /\ reqs[s].route = "POST /api/confirm-device"
          /\ reqs[s].pc = "done"
          /\ reqs[s].res.devices = <<devices[2]>>
          /\ devices[2].status = "active"
          /\ devices[1].status = "pending"

\* ---- C5
\* C5: a profile update that supplies avatar_url and no full_name leaves the
\* full_name of the caller's users row as it was before the request.
C5_AvatarOnlyKeepsName ==
    [][\A s \in Slots :
          /\ Steps(s, "PUT /api/user/profile", "handler")
          /\ reqs'[s].pc = "handler2"
          /\ reqs[s].body.full_name = Undefined
          /\ reqs[s].body.avatar_url # Undefined
          => users'[reqs[s].user.id].full_name = users[reqs[s].user.id].full_name]_vars

\* ---- C6
\* C6: when the update of the users table fails the response is 500 and
\* updateUser is never called; when it succeeds the response is 200 with the
\* updated row and the write is kept, whether updateUser fails or not.
C6_SecondaryFailureSwallowed ==
    /\ [](\A s \in Slots :
             IsPut(reqs[s]) /\ reqs[s].pc = "done" /\ reqs[s].res.status # 302
             => \/ /\ reqs[s].res.status = 500
                   /\ reqs[s].metaOps = 0
                \/ /\ reqs[s].res.status = 200
                   /\ reqs[s].metaOps = 1
                   /\ Len(reqs[s].res.users) = 1)
    /\ [][\A s \in Slots :
             /\ Steps(s, "PUT /api/user/profile", "handler")
                => \/ /\ reqs'[s].pc = "done"
                      /\ reqs'[s].res.status = 500
                      /\ <<users', meta'>> = <<users, meta>>
                   \/ /\ reqs'[s].pc = "handler2"
                      /\ reqs'[s].metaOps = 0
                      /\ reqs'[s].data = <<users'[reqs[s].user.id]>>
                      /\ meta' = meta
             /\ Steps(s, "PUT /api/user/profile", "handler2")
                => /\ reqs'[s].pc = "done"
                   /\ reqs'[s].res.status = 200
                   /\ reqs'[s].res.users = reqs[s].data
                   /\ users' = users
                   /\ reqs'[s].authError => meta' = meta]_vars

\* A profile update answered 200 with the row it wrote, still in the table,
\* though its updateUser failed.
C6_Witness ==
    \E s \in Slots, u \in Users :
       /\ IsPut(reqs[s]) /\ reqs[s].pc = "done"
       /\ reqs[s].authError
       /\ reqs[s].res.status = 200
       /\ reqs[s].res.users = <<users[u]>>
       /\ users[u].full_name = "Bob"
       /\ meta[u].full_name # "Bob"

\* ---- C10
\* C10: when a profile update, no other overlapping it, has made both its
\* writes with success, the full_name and avatar_url of the caller's users row
\* equal those of the caller's metadata.
C10_RowMatchesMetadata ==
    [][\A s \in Slots :
          /\ Steps(s, "PUT /api/user/profile", "handler2")
          /\ ~reqs'[s].authError
          => LET u == reqs[s].user.id
             IN /\ users'[u].full_name = meta'[u].full_name
                /\ users'[u].avatar_url = meta'[u].avatar_url]_vars

\* ---- C3
\* The identity the Directory Service resolves a token to.
Identity(token) ==
    [id |-> TokenUser(token), user_metadata |-> meta[TokenUser(token)]]

\* C3: under every interleaving, the guard lets a request through exactly
\* when the Directory Service validates its cookie's token, and then with
\* req.user the identity the token resolves to; every other request gets the
\* one redirect to /login, its handler never runs and no store call is made
\* for it.
C3_GuardAdmitsOnlyValidSessions ==
    /\ [](\A s \in Slots :
             reqs[s].route \in ProtectedRoutes
             => /\ reqs[s].pc \in {"handler", "handler2"}
                   => /\ reqs[s].user.id \in Users
                      /\ reqs[s].user.id = TokenUser(reqs[s].cookie)
                /\ reqs[s].pc = "auth" => reqs[s].storeOps = 0
                /\ reqs[s].pc = "done" /\ reqs[s].res.status = 302
                   => /\ reqs[s].res = Redirect("/login")
                      /\ reqs[s].storeOps = 0)
    /\ [][\A s \in Slots :
             /\ reqs[s].pc = "auth" /\ reqs'[s] # reqs[s]
                => IF reqs[s].cookie \in validTokens
                   THEN /\ reqs'[s].pc = "handler"
                        /\ reqs'[s].user = Identity(reqs[s].cookie)
                   ELSE /\ reqs'[s].pc = "done"
                        /\ reqs'[s].res = Redirect("/login")
                        /\ reqs'[s].storeOps = 0
             /\ reqs[s].route \in ProtectedRoutes /\ reqs'[s].res.status = 302
                => reqs[s].pc \in {"auth", "done"}]_vars

\* Two requests in flight: one let through as A and waiting in its handler,
\* though A's token has expired since; the other, with a cookie no longer
\* valid, redirected without a store call.
C3_Witness ==
    \E s, t \in Slots :
       /\ s # t
       /\ reqs[s].pc = "handler"
       /\ reqs[s].cookie = "tokA"
       /\ reqs[s].user.id = "A"
       /\ "tokA" \notin validTokens
       /\ reqs[t].route \in ProtectedRoutes
       /\ reqs[t].pc = "done"
       /\ reqs[t].res = Redirect("/login")
       /\ reqs[t].storeOps = 0

\* ---- C4
\* The owner of a row: owner_id, or the id of a users row.
Owner(row) == IF "owner_id" \in DOMAIN row THEN row.owner_id ELSE row.id

RowsOf(r) ==
    {r.data[i] : i \in 1..Len(r.data)}
      \union {r.res.devices[i] : i \in 1..Len(r.res.devices)}
      \union {r.res.content[i] : i \in 1..Len(r.res.content)}
      \union {r.res.users[i] : i \in 1..Len(r.res.users)}

\* C4: a handler behind the guard, content creation apart, reads, returns,
\* renders and writes only rows whose owner is the caller.
C4_ScopedByCaller ==
    [][\A s \in Slots :
          /\ reqs[s].route \in ProtectedRoutes \ {"POST /api/content"}
          /\ reqs[s].pc \in {"handler", "handler2"}
          /\ reqs'[s] # reqs[s]
          => /\ \A row \in RowsOf(reqs'[s]) : Owner(row) = reqs[s].user.id
             /\ \A i \in 1..Len(devices') :
                   (i > Len(devices) \/ devices'[i] # devices[i])
                   => devices'[i].owner_id = reqs[s].user.id
             /\ \A u \in Users : users'[u] # users[u] => u = reqs[s].user.id
             /\ content' = content]_vars

====
